---- MODULE Spec2Model ----
(***************************************************************************)
(* ETL-Portal: one ETL job, one run record, executed by the Airflow task   *)
(* execute_etl_job (with the task's retries) through                       *)
(* ETLService.execute_job and ETLService._write_to_postgresql, against one *)
(* PostgreSQL destination table.                                           *)
(*                                                                         *)
(* Columns are names (strings); a row is a function from column names to   *)
(* values.  Data values are strings (NULL is the SQL NULL), timestamps are *)
(* naturals read from a logical clock (TNull is the SQL NULL timestamp).   *)
(* DataFrame and table column lists are modelled as sets of names.         *)
(*                                                                         *)
(* Specifications:                                                         *)
(*   Spec          one run of a stored job, with the task's retries        *)
(*   SpecRerun     an upsert job executed twice on an empty destination    *)
(*   SpecLong      one run of fifty rows, slice by slice                   *)
(*   SpecTransform the extract and transform stages on any mapping list    *)
(*   SpecPortal    the job and schedule endpoints of the API               *)
(*   SpecMappings  unusual mapping lists through the whole pipeline, and   *)
(*                 a failing commit of the progress update                 *)
(*   SpecProvision an upsert run replacing the table's primary key         *)
(*   SpecConcurrent two runs of an insert job reconciling one table        *)
(***************************************************************************)
EXTENDS Integers, Sequences, FiniteSets, TLC

\* ---------------------------------------------------------------- bounds
MaxTries == 2
MaxBatchSize == 2

\* ------------------------------------------------------------- constants
Retries == 3
NULL == "NULL"
TNull == 0
NoErr == "none"
NoCol == ""

auto_generated_columns == {"created_at", "updated_at", "inserted_date", "modified_date"}
TsCols == {"created_at", "updated_at"}

\* TransformationService.TRANSFORMATIONS: the registry of known names
\* (only the names the mappings below can use are listed).
TRANSFORMATIONS == {"UPPER", "LOWER"}

Min(a, b) == IF a < b THEN a ELSE b

Range(s) == {s[i] : i \in 1..Len(s)}

\* --------------------------------------------------------- job definition
Mapping(src, dst, pk, excl, xf) ==
    [source_column |-> src, dest_column |-> dst, is_primary_key |-> pk,
     exclude |-> excl, transformations |-> xf]

MapIdV == << Mapping("id", "id", TRUE, FALSE, <<>>),
             Mapping("v", "v", FALSE, FALSE, <<"UPPER">>) >>
MapIdVRegion == << Mapping("id", "id", TRUE, FALSE, <<>>),
                   Mapping("v", "v", FALSE, FALSE, <<>>),
                   Mapping("r", "region", FALSE, FALSE, <<>>) >>
MapNoPk == << Mapping("id", "id", FALSE, FALSE, <<>>),
              Mapping("v", "v", FALSE, FALSE, <<>>),
              Mapping("r", "region", FALSE, TRUE, <<>>) >>
MapIdOnly == << Mapping("id", "id", TRUE, FALSE, <<>>) >>
MapBogus == << Mapping("id", "id", TRUE, FALSE, <<>>),
               Mapping("v", "v", FALSE, FALSE, <<"BOGUS">>) >>

MappingLists == {MapIdV, MapIdVRegion, MapNoPk, MapIdOnly, MapBogus}

\* destination columns the job writes: non-excluded mappings
ActiveMappings_all(ms) == Range(ms)

ActiveMappings(ms) == {ms[i] : i \in {j \in 1..Len(ms) : ~ms[j].exclude}}

\* pk_columns of _write_to_postgresql: mappings marked primary key, not excluded
PkColumns(ms) == {m.dest_column : m \in {a \in ActiveMappings(ms) : a.is_primary_key}}

\* new_table_ddl: absent, or the table a CREATE TABLE statement defines
NoDDL == [present |-> FALSE, cols |-> {}, pk |-> {}]

\* crud.generate_ddl: the non-excluded columns, PRIMARY KEY on the marked ones
generate_ddl(ms) ==
    [present |-> TRUE,
     cols |-> {m.dest_column : m \in ActiveMappings(ms)},
     pk |-> PkColumns(ms)]

\* DDLGenerator.generate: as above plus created_at and updated_at
DDLGenerator_generate(ms) ==
    [present |-> TRUE,
     cols |-> {m.dest_column : m \in ActiveMappings(ms)} \cup TsCols,
     pk |-> PkColumns(ms)]

\* ------------------------------------------------------------ source data
SrcRow(i, v, r) == [id |-> i, v |-> v, r |-> r]
SourceBatches ==
    { <<>>,
      << SrcRow("1", "a", "x") >>,
      << SrcRow("1", "b", "x"), SrcRow("2", NULL, "y") >>,
      << SrcRow("1", "a", "x"), SrcRow("2", "b", "y"), SrcRow("1", "b", "x") >> }

SourceColumns == {"id", "v", "r"}

\* ------------------------------------------------------ destination table
Row2(i, v) == [c \in {"id", "v"} |-> IF c = "id" THEN i ELSE v]
Constraint(t, cs) == [ctype |-> t, cols |-> cs]

NoTable == [exists |-> FALSE, cols |-> {}, constraints |-> {}, rows |-> <<>>]
Table(cs, ks, rs) == [exists |-> TRUE, cols |-> cs, constraints |-> ks, rows |-> rs]

InitialTables ==
    { NoTable,
      Table({"id", "v"}, {Constraint("PRIMARY KEY", {"id"})}, << Row2("1", "A") >>),
      Table({"id", "v"}, {Constraint("UNIQUE", {"id"})}, <<>>),
      Table({"id", "v", "created_at", "updated_at"}, {Constraint("PRIMARY KEY", {"id"})},
            << [c \in {"id", "v", "created_at", "updated_at"} |->
                   CASE c = "id" -> "1" [] c = "v" -> "A" [] OTHER -> 1] >>),
      Table({"id", "v", "updated_at"}, {Constraint("PRIMARY KEY", {"id"})},
            << [c \in {"id", "v", "updated_at"} |->
                   CASE c = "id" -> "2" [] c = "v" -> NULL [] OTHER -> 1] >>),
      Table({"id", "v", "region"}, {Constraint("PRIMARY KEY", {"id", "v"})}, <<>>),
      Table({"id"}, {}, << [c \in {"id"} |-> "1"] >>),
      Table({"id", "updated_at"}, {Constraint("PRIMARY KEY", {"id"})},
            << [c \in {"id", "updated_at"} |-> IF c = "id" THEN "1" ELSE 1] >>) }

\* ------------------------------------------------------ transform engine
Upper(x) == CASE x = "a" -> "A" [] x = "b" -> "B" [] OTHER -> x
Lower(x) == CASE x = "A" -> "a" [] x = "B" -> "b" [] OTHER -> x

\* TransformationService.apply_transformation on one cell; the caller has
\* already checked that the name is registered
apply_transformation(x, t) ==
    CASE t = "UPPER" -> Upper(x)
      [] t = "LOWER" -> Lower(x)
      [] OTHER -> x

RECURSIVE apply_transformations_cell(_, _)
apply_transformations_cell(x, ts) ==
    IF ts = <<>> THEN x
    ELSE apply_transformations_cell(apply_transformation(x, Head(ts)), Tail(ts))

\* the mappings apply_transformations materialises: not excluded, with a source
Materialised(ms) == {m \in ActiveMappings(ms) : m.source_column # NoCol}

\* lines 166-173 without the registry test
UnknownTransformation_none(m) == FALSE

UnknownTransformation(m) ==
    \E i \in 1..Len(m.transformations) :
        /\ m.transformations[i] # "none"
        /\ m.transformations[i] \notin TRANSFORMATIONS

\* the error apply_transformations raises, NoErr when it returns
TransformError(ms) ==
    IF \E m \in Materialised(ms) : m.source_column \notin SourceColumns
    THEN "source_column_not_found"
    ELSE IF \E m \in Materialised(ms) : UnknownTransformation(m)
    THEN "unknown_transformation"
    ELSE NoErr

TransformedColumns(ms) ==
    IF ms = <<>> THEN SourceColumns ELSE {m.dest_column : m \in Materialised(ms)}

\* line 333: a later mapping to the same destination column replaces the
\* series an earlier one assigned
LastMappingFor(c, ms) ==
    LET idx == {i \in 1..Len(ms) : ms[i] \in Materialised(ms) /\ ms[i].dest_column = c}
    IN  ms[CHOOSE i \in idx : \A j \in idx : j <= i]

TransformRow(r, ms) ==
    [c \in TransformedColumns(ms) |->
        LET m == LastMappingFor(c, ms)
        IN  apply_transformations_cell(r[m.source_column], m.transformations)]

\* ETLService.apply_transformations: the destination-shaped DataFrame.  A
\* DataFrame to which no column was added has no rows.
apply_transformations(src, ms) ==
    IF ms = <<>> THEN [columns |-> SourceColumns, rows |-> src]
    ELSE IF TransformedColumns(ms) = {} THEN [columns |-> {}, rows |-> <<>>]
    ELSE [columns |-> TransformedColumns(ms),
          rows |-> [i \in 1..Len(src) |-> TransformRow(src[i], ms)]]

EmptyDF == [columns |-> {}, rows |-> <<>>]

\* -------------------------------------------------- destination semantics
\* value of a column the DML does not name: the column default
\* (DDLGenerator declares created_at/updated_at DEFAULT CURRENT_TIMESTAMP)
DefaultOf(c, now) == IF c \in TsCols THEN now ELSE NULL

\* CREATE TABLE from the DDL
CreateFromDDL(ddl) ==
    Table(ddl.cols,
          IF ddl.pk = {} THEN {} ELSE {Constraint("PRIMARY KEY", ddl.pk)},
          <<>>)

\* ALTER TABLE ... ADD COLUMN: existing rows get NULL in the new column
AddColumnTo_noop(t, col) == t

AddColumnTo(t, col) ==
    [t EXCEPT !.cols = @ \cup {col},
              !.rows = [i \in 1..Len(t.rows) |->
                          [c \in t.cols \cup {col} |->
                              IF c \in t.cols THEN t.rows[i][c]
                              ELSE IF c \in TsCols THEN TNull ELSE NULL]]]

PrimaryKeys(t) == {k \in t.constraints : k.ctype = "PRIMARY KEY"}

\* two stored rows collide on a constraint's columns
Collide(r1, r2, k) == \A c \in k.cols : r1[c] = r2[c]

Violates(t, rows) ==
    \E k \in t.constraints :
        \E i, j \in 1..Len(rows) : i < j /\ Collide(rows[i], rows[j], k)

\* the stored row a DML record becomes: named columns from the record,
\* the others from the column default
StoredRow(t, cols, rec, now) ==
    [c \in t.cols |-> IF c \in cols THEN rec[c] ELSE DefaultOf(c, now)]

\* plain multi-row INSERT of one slice: the table it leaves, or a rejection
InsertAccepted(t, cols, recs, now) ==
    /\ t.exists
    /\ cols \subseteq t.cols
    /\ ~Violates(t, t.rows \o [i \in 1..Len(recs) |-> StoredRow(t, cols, recs[i], now)])

InsertInto(t, cols, recs, now) ==
    [t EXCEPT !.rows = @ \o [i \in 1..Len(recs) |-> StoredRow(t, cols, recs[i], now)]]

\* ---- the upsert statement of one record (lines 817-890) ----
\* lines 833-837 without the created_at exclusion
update_columns_withCreated(cols, keys) == {c \in cols : c \notin keys}

\* SET clause columns: not an upsert key, not created_at
update_columns(cols, keys) == {c \in cols : c \notin keys /\ c # "created_at"}

\* WHERE clause columns: the SET columns that are not timestamps
comparison_columns(cols, keys) ==
    {c \in update_columns(cols, keys) : c \notin {"updated_at", "created_at"}}

\* VALUES: COALESCE(value, CURRENT_TIMESTAMP) for created_at/updated_at
InsertValue(c, rec, now) ==
    IF c \in TsCols /\ rec[c] = TNull THEN now ELSE rec[c]

\* the row ON CONFLICT DO UPDATE leaves for a stored row old and a record rec
ConflictUpdate(old, cols, keys, rec, now) ==
    IF update_columns(cols, keys) = {} THEN old                  \* DO NOTHING
    ELSE IF comparison_columns(cols, keys) # {}
            /\ \A c \in comparison_columns(cols, keys) : old[c] = rec[c]
         THEN old                                   \* WHERE ... IS DISTINCT FROM
    ELSE [c \in DOMAIN old |->
            IF c \notin update_columns(cols, keys) THEN old[c]
            ELSE IF c = "updated_at" THEN now
            ELSE rec[c]]

Conflicts(old, keys, rec) == \A k \in keys : old[k] = rec[k]

UpsertOne(t, cols, keys, rec, now) ==
    IF \E i \in 1..Len(t.rows) : Conflicts(t.rows[i], keys, rec)
    THEN [t EXCEPT !.rows = [i \in 1..Len(t.rows) |->
                    IF Conflicts(t.rows[i], keys, rec)
                    THEN ConflictUpdate(t.rows[i], cols, keys, rec, now)
                    ELSE t.rows[i]]]
    ELSE [t EXCEPT !.rows = Append(@,
                    [c \in t.cols |-> IF c \in cols THEN InsertValue(c, rec, now)
                                      ELSE DefaultOf(c, now)])]

\* executemany: one statement per record, in order
RECURSIVE UpsertInto(_, _, _, _, _)
UpsertInto(t, cols, keys, recs, now) ==
    IF recs = <<>> THEN t
    ELSE UpsertInto(UpsertOne(t, cols, keys, Head(recs), now), cols, keys, Tail(recs), now)

\* PostgreSQL accepts ON CONFLICT (keys) only with a unique index on exactly keys
HasExactConstraint(t, keys) == \E k \in t.constraints : k.cols = keys

UpsertAccepted(t, cols, keys, recs, now) ==
    /\ t.exists
    /\ cols \subseteq t.cols
    /\ keys \subseteq cols
    /\ HasExactConstraint(t, keys)
    /\ ~Violates(t, UpsertInto(t, cols, keys, recs, now).rows)

\* constraint_check_query (lines 711-724): a PRIMARY KEY or UNIQUE constraint
\* with len(upsert_keys) distinct columns among the upsert keys
constraint_exists(t, upsert_keys) ==
    \E k \in t.constraints :
        Cardinality(k.cols \cap Range(upsert_keys)) = Len(upsert_keys)

\* ------------------------------------------------------------------ state
VARIABLES
    job,             \* the job definition (ETLJob and its column mappings)
    source,          \* the rows the source yields
    dest,            \* the destination table
    run,             \* the persisted run record (JobRun)
    airflow,         \* the Airflow task instance of the run: state, try_number
    api,             \* position of the execute endpoint
    pc,              \* position of ETLService.execute_job
    df,              \* the DataFrame handed from stage to stage
    existing_columns,\* the loader's snapshot of the table's columns
    existing_column_types, \* columns of the first snapshot (name -> native type)
    table_exists,    \* the loader's table_exists flag
    todo,            \* missing columns the ALTER loop has still to add
    conn,            \* the destination connection: none, open, closed
    rows_processed,  \* the loader's local counters
    rows_failed,
    start_idx,
    err,             \* the message of the error being propagated
    log,             \* statements submitted and stages entered by this invocation
    clock,           \* CURRENT_TIMESTAMP / datetime.utcnow()
    is_paused,       \* etl_jobs.is_paused of the job
    schedule,        \* the job's row in job_schedules
    request,         \* the last request the job API handled
    response,        \* the HTTP status it was answered with
    executions,      \* how many runs of the job the execute endpoint has started
    first_dest,      \* the destination as the job's first run left it
    peer             \* a concurrent run of the same job: its reconciliation

vars == << job, source, dest, run, airflow, api, pc, df, existing_columns,
           existing_column_types, table_exists, todo, conn, rows_processed, rows_failed, start_idx,
           err, log, clock, is_paused, schedule, request, response,
           executions, first_dest, peer >>

config == << job, source >>
portal == << is_paused, schedule, request, response >>
rerun == << executions, first_dest, peer >>
locals == << df, existing_columns, existing_column_types, table_exists, todo,
             rows_processed, rows_failed, start_idx >>

\* no concurrent run
NoPeer == [pc |-> "none", existing_columns |-> {}, todo |-> {}]

NoRun == [exists |-> FALSE, status |-> "none", rows_total |-> 0,
          rows_processed |-> 0, rows_failed |-> 0, progress_percentage |-> 0,
          error_message |-> NoErr, airflow_dag_run_id |-> FALSE]

\* no row in job_schedules for the job
NoSchedule == [exists |-> FALSE, enabled |-> FALSE]

\* nothing has been asked of the job API yet
NoBody == [empty |-> TRUE]
NoRequest == [op |-> "none", body |-> NoBody]
NoResponse == "none"

\* the DDLs a job with mappings ms can carry
DDLs(ms) == {NoDDL, generate_ddl(ms), DDLGenerator_generate(ms)}

\* the upsert keys a job can carry (read only under strategy upsert).
\* create_job validates them against the mappings; update_job skips the
\* validation when column_mappings is not part of the update, so a stored
\* upsert job can have no keys, or keys the mappings do not mark primary.
UpsertKeys(strategy) == IF strategy = "upsert" THEN {<<>>, <<"id">>} ELSE {<<>>}

Init ==
    /\ \E ms \in MappingLists, strategy \in {"insert", "upsert", "truncate_insert"},
          bs \in 1..MaxBatchSize :
         \E ddl \in DDLs(ms), keys \in UpsertKeys(strategy), cnt \in BOOLEAN :
            /\ cnt => ddl.present
            /\ job = [exists |-> TRUE,
                      load_strategy |-> strategy, upsert_keys |-> keys,
                      create_new_table |-> cnt, new_table_ddl |-> ddl,
                      column_mappings |-> ms, batch_size |-> bs]
    /\ source \in SourceBatches
    /\ dest \in InitialTables
    /\ run = NoRun
    /\ airflow = [state |-> "none", try_number |-> 0]
    /\ api = "idle"
    /\ pc = "idle"
    /\ df = EmptyDF
    /\ existing_columns = {}
    /\ existing_column_types = {}
    /\ table_exists = FALSE
    /\ todo = {}
    /\ conn = "none"
    /\ rows_processed = 0
    /\ rows_failed = 0
    /\ start_idx = 0
    /\ err = NoErr
    /\ log = <<>>
    /\ clock = 2
    /\ is_paused = FALSE
    /\ schedule = NoSchedule
    /\ request = NoRequest
    /\ response = NoResponse
    /\ executions = 0
    /\ first_dest = NoTable
    /\ peer = NoPeer

\* ------------------------------------------------- execute endpoint (API)
\* POST /execute/{job_id}, lines 466-477: the run record is created pending
ExecuteJobCreate ==
    /\ api = "idle"
    /\ job.exists
    /\ ~is_paused
    /\ run' = [NoRun EXCEPT !.exists = TRUE, !.status = "pending"]
    /\ api' = "trigger"
    /\ executions' = executions + 1
    /\ UNCHANGED << config, portal, first_dest, peer, dest, airflow, pc, locals, conn,
                    err, log, clock >>

\* the endpoint is called again after the job's first run completed: a
\* second run record, a second DAG run
ExecuteAgain ==
    /\ api = "done"
    /\ pc = "idle"
    /\ job.exists
    /\ ~is_paused
    /\ executions = 1
    /\ run.status = "completed"
    /\ airflow.state = "success"
    /\ run' = [NoRun EXCEPT !.exists = TRUE, !.status = "pending"]
    /\ airflow' = [state |-> "none", try_number |-> 0]
    /\ api' = "trigger"
    /\ executions' = executions + 1
    /\ first_dest' = dest
    /\ UNCHANGED << config, portal, peer, dest, pc, locals, conn, err, log, clock >>

\* lines 480-493: the DAG run is queued and its id stored on the record
TriggerDag ==
    /\ api = "trigger"
    /\ airflow' = [airflow EXCEPT !.state = "queued"]
    /\ run' = [run EXCEPT !.airflow_dag_run_id = TRUE]
    /\ api' = "done"
    /\ UNCHANGED << config, portal, rerun, dest, pc, locals, conn, err, log, clock >>

\* lines 495-506: the trigger raised; the record is marked failed
TriggerFailedUpdate(r) ==
    [r EXCEPT !.status = "failed", !.error_message = "trigger_failed"]

TriggerDagFails ==
    /\ api = "trigger"
    /\ run' = TriggerFailedUpdate(run)
    /\ api' = "done"
    /\ UNCHANGED << config, portal, rerun, dest, airflow, pc, locals, conn, err, log, clock >>

\* ------------------------------------------------------- polling (API)
\* get_job_run / list_job_runs, lines 126-169 and 56-95.  Reading
\* RunStatus.RETRYING raises AttributeError (the model enum has no such
\* member), which the handler's except clause swallows: the up_for_retry
\* branch changes nothing.
PolledStatus_anyStale(r, airflow_state) ==
    IF r.airflow_dag_run_id /\ airflow_state = "running"
          /\ r.status \in {"failed", "completed"}
    THEN "running"
    ELSE r.status

PolledStatus(r, airflow_state) ==
    IF r.airflow_dag_run_id /\ r.status \in {"failed", "running"}
    THEN IF airflow_state = "up_for_retry" THEN r.status
         ELSE IF airflow_state = "running" /\ r.status = "failed" THEN "running"
         ELSE r.status
    ELSE r.status

GetJobRun ==
    /\ run.exists
    /\ run' = [run EXCEPT !.status = PolledStatus(run, airflow.state)]
    /\ UNCHANGED << config, portal, rerun, dest, airflow, api, pc, locals, conn, err, log, clock >>

\* ------------------------------------------------- scheduler (Airflow)
\* the task instance starts: first try, or a retry after a failed try
TaskStart ==
    /\ airflow.state \in {"queued", "up_for_retry"}
    /\ airflow.try_number < Min(Retries + 1, MaxTries)
    /\ pc = "idle"
    /\ airflow' = [state |-> "running", try_number |-> airflow.try_number + 1]
    /\ pc' = "start"
    /\ df' = EmptyDF
    /\ existing_columns' = {}
    /\ existing_column_types' = {}
    /\ table_exists' = FALSE
    /\ todo' = {}
    /\ conn' = "none"
    /\ rows_processed' = 0
    /\ rows_failed' = 0
    /\ start_idx' = 0
    /\ err' = NoErr
    /\ log' = <<>>
    /\ UNCHANGED << config, portal, rerun, dest, run, api, clock >>

\* the task instance ends: success when execute_job returned, otherwise
\* up_for_retry while retries remain, failed after the last one
TaskExit ==
    /\ pc \in {"returned", "raised"}
    /\ airflow' = [airflow EXCEPT !.state =
                      IF pc = "returned" THEN "success"
                      ELSE IF airflow.try_number <= Retries THEN "up_for_retry"
                      ELSE "failed"]
    /\ pc' = "idle"
    /\ UNCHANGED << config, portal, rerun, dest, run, api, locals, conn, err, log, clock >>

\* ------------------------------------------- ETLService.execute_job
\* _update_job_run(status=RUNNING), lines 68-74
RunningUpdate_skipped(r) == r

RunningUpdate(r) == [r EXCEPT !.status = "running"]

\* lines 48-74: load the run and the job, persist status running
Start_skipsExtract ==
    /\ pc = "start"
    /\ run' = RunningUpdate(run)
    /\ log' = Append(log, "RUNNING")
    /\ pc' = "transform"
    /\ UNCHANGED << config, portal, rerun, dest, airflow, api, locals, conn, err, clock >>

Start ==
    /\ pc = "start"
    /\ run' = RunningUpdate(run)
    /\ log' = Append(log, "RUNNING")
    /\ pc' = "extract"
    /\ UNCHANGED << config, portal, rerun, dest, airflow, api, locals, conn, err, clock >>

\* lines 55-59: job_id (taken from the DAG run conf) names no job
StartFails ==
    /\ pc = "start"
    /\ err' = "job_not_found"
    /\ pc' = "handler"
    /\ UNCHANGED << config, portal, rerun, dest, run, airflow, api, locals, conn, log, clock >>

\* lines 76-83: read_source_data, then rows_total is persisted
Extract ==
    /\ pc = "extract"
    /\ df' = [columns |-> SourceColumns, rows |-> source]
    /\ run' = [run EXCEPT !.rows_total = Len(source)]
    /\ log' = Append(log, "EXTRACT")
    /\ pc' = "transform"
    /\ UNCHANGED << config, portal, rerun, dest, airflow, api, existing_columns,
                    existing_column_types, table_exists,
                    todo, rows_processed, rows_failed, start_idx, conn, err, clock >>

\* read_source_data raises (file not found, sheet not readable, ...)
ExtractFails ==
    /\ pc = "extract"
    /\ err' = "source_error"
    /\ log' = Append(log, "EXTRACT")
    /\ pc' = "handler"
    /\ UNCHANGED << config, portal, rerun, dest, run, airflow, api, locals, conn, clock >>

\* lines 85-91: apply_transformations returns or raises
Transform ==
    /\ pc = "transform"
    /\ log' = Append(log, "TRANSFORM")
    /\ IF TransformError(job.column_mappings) = NoErr
       THEN /\ df' = apply_transformations(df.rows, job.column_mappings)
            /\ pc' = "connect"
            /\ err' = err
       ELSE /\ err' = TransformError(job.column_mappings)
            /\ pc' = "handler"
            /\ df' = df
    /\ UNCHANGED << config, portal, rerun, dest, run, airflow, api, existing_columns,
                    existing_column_types, table_exists,
                    todo, rows_processed, rows_failed, start_idx, conn, clock >>

\* ---------------------------------- ETLService._write_to_postgresql
\* an error raised inside the try block of line 403: the finally clause runs next
RaiseInLoad(e) == err' = e /\ pc' = "close"

\* lines 373-397: the connection is acquired
Connect ==
    /\ pc = "connect"
    /\ conn' = "open"
    /\ log' = Append(log, "CONNECT")
    /\ pc' = "create_schema"
    /\ UNCHANGED << config, portal, rerun, dest, run, airflow, api, locals, err, clock >>

\* credential lookup or asyncpg.connect raises
ConnectFails ==
    /\ pc = "connect"
    /\ err' = "connect_failed"
    /\ pc' = "handler"
    /\ UNCHANGED << config, portal, rerun, dest, run, airflow, api, locals, conn, log, clock >>

\* line 401: CREATE SCHEMA IF NOT EXISTS, outside the try block
CreateSchema ==
    /\ pc = "create_schema"
    /\ log' = Append(log, "CREATE SCHEMA")
    /\ \/ pc' = "pre_create" /\ err' = err
       \/ pc' = "handler" /\ err' = "db_error"
    /\ UNCHANGED << config, portal, rerun, dest, run, airflow, api, locals, conn, clock >>

\* lines 405-445: create_new_table with a DDL, table not there yet
PreCreate ==
    /\ pc = "pre_create"
    /\ IF job.create_new_table /\ job.new_table_ddl.present /\ ~dest.exists
       THEN /\ log' = Append(log, "CREATE TABLE")
            /\ \/ /\ dest' = CreateFromDDL(job.new_table_ddl)
                  /\ pc' = "snapshot"
                  /\ err' = err
               \/ /\ RaiseInLoad("table_create_failed")
                  /\ dest' = dest
       ELSE /\ pc' = "snapshot"
            /\ UNCHANGED << dest, err, log >>
    /\ UNCHANGED << config, portal, rerun, run, airflow, api, locals, conn, clock >>

\* lines 447-473: the schema snapshot
Snapshot ==
    /\ pc = "snapshot"
    /\ existing_columns' = (IF dest.exists THEN dest.cols ELSE {})
    /\ existing_column_types' = (IF dest.exists THEN dest.cols ELSE {})
    /\ table_exists' = (dest.exists /\ dest.cols # {})
    /\ log' = Append(log, "SNAPSHOT")
    /\ pc' = "reconcile"
    /\ UNCHANGED << config, portal, rerun, dest, run, airflow, api, df, todo, rows_processed,
                    rows_failed, start_idx, conn, err, clock >>

columns_for_comparison == df.columns \ auto_generated_columns
existing_columns_for_comparison == existing_columns \ auto_generated_columns
missing_columns == columns_for_comparison \ existing_columns_for_comparison
extra_columns == existing_columns_for_comparison \ columns_for_comparison

\* CREATE TABLE from job.new_table_ddl, submitted at lines 484, 504, 526, 615
ExecuteDDL(next) ==
    /\ log' = Append(log, "CREATE TABLE")
    /\ \/ /\ ~dest.exists
          /\ dest' = CreateFromDDL(job.new_table_ddl)
          /\ pc' = next
          /\ err' = err
       \/ /\ RaiseInLoad("db_error")
          /\ dest' = dest

\* line 489: set(existing_columns_for_comparison) != set(columns_for_comparison)
SchemaDiffers_supersetOk(existing, expected) == ~(expected \subseteq existing)

SchemaDiffers(existing, expected) == existing # expected

\* lines 476-529: truncate_insert
ReconcileTruncateInsert ==
    /\ pc = "reconcile"
    /\ job.load_strategy = "truncate_insert"
    /\ IF ~table_exists
       THEN IF job.new_table_ddl.present
            THEN ExecuteDDL("prepare")
            ELSE RaiseInLoad("no_ddl") /\ UNCHANGED << dest, log >>
       ELSE IF SchemaDiffers(existing_columns_for_comparison, columns_for_comparison)
       THEN /\ log' = Append(log, "DROP TABLE")
            /\ \/ dest' = NoTable /\ pc' = "recreate" /\ err' = err
               \/ RaiseInLoad("db_error") /\ dest' = dest
       ELSE /\ log' = Append(log, "TRUNCATE")
            /\ \/ /\ dest.exists
                  /\ dest' = [dest EXCEPT !.rows = <<>>]
                  /\ pc' = "prepare"
                  /\ err' = err
               \/ RaiseInLoad("db_error") /\ dest' = dest
    /\ UNCHANGED << config, portal, rerun, run, airflow, api, locals, conn, clock >>

\* lines 502-516: recreate the dropped table
Recreate ==
    /\ pc = "recreate"
    /\ IF job.new_table_ddl.present
       THEN ExecuteDDL("prepare")
       ELSE RaiseInLoad("no_ddl_recreate") /\ UNCHANGED << dest, log >>
    /\ UNCHANGED << config, portal, rerun, run, airflow, api, locals, conn, clock >>

\* line 597: upsert requires the exact column set
UpsertMismatch_missingOnly(missing, extra) == missing # {}

UpsertMismatch(missing, extra) == missing # {} \/ extra # {}

\* lines 531-618: insert and upsert
ReconcileInsertUpsert ==
    /\ pc = "reconcile"
    /\ job.load_strategy \in {"insert", "upsert"}
    /\ IF table_exists
       THEN /\ UNCHANGED << dest, log >>
            /\ IF missing_columns # {} /\ job.load_strategy = "insert"
               THEN todo' = missing_columns /\ pc' = "add_columns" /\ err' = err
               ELSE IF job.load_strategy = "upsert"
                       /\ UpsertMismatch(missing_columns, extra_columns)
               THEN RaiseInLoad("schema_mismatch_upsert") /\ todo' = todo
               ELSE pc' = "prepare" /\ err' = err /\ todo' = todo
       ELSE /\ todo' = todo
            /\ IF job.new_table_ddl.present
               THEN ExecuteDDL("prepare")
               ELSE RaiseInLoad("no_ddl") /\ UNCHANGED << dest, log >>
    /\ UNCHANGED << config, portal, rerun, run, airflow, api, df, existing_columns,
                    existing_column_types, table_exists,
                    rows_processed, rows_failed, start_idx, conn, clock >>

\* lines 570-578: one ALTER TABLE ... ADD COLUMN of the loop
AddColumn ==
    /\ pc = "add_columns"
    /\ \E col \in todo :
        /\ log' = Append(log, "ADD COLUMN")
        /\ \/ /\ dest.exists /\ col \notin dest.cols
              /\ dest' = AddColumnTo(dest, col)
              /\ todo' = todo \ {col}
              /\ pc' = (IF todo = {col} THEN "refresh" ELSE "add_columns")
              /\ err' = err
           \/ /\ RaiseInLoad("alter_failed")
              /\ UNCHANGED << dest, todo >>
    /\ UNCHANGED << config, portal, rerun, run, airflow, api, df, existing_columns,
                    existing_column_types, table_exists,
                    rows_processed, rows_failed, start_idx, conn, clock >>

\* lines 580-583: the column list is fetched again
Refresh ==
    /\ pc = "refresh"
    /\ existing_columns' = (IF dest.exists THEN dest.cols ELSE {})
    /\ pc' = "prepare"
    /\ UNCHANGED << config, portal, rerun, dest, run, airflow, api, df, existing_column_types,
                    table_exists, todo,
                    rows_processed, rows_failed, start_idx, conn, err, log, clock >>

\* lines 620-649: created_at / updated_at are added to the DataFrame when the
\* snapshot has them: the current time for insert and truncate_insert, NULL
\* for upsert
TimestampColumns == {c \in TsCols : c \in existing_columns /\ c \notin df.columns}

WithTimestamps(d, strategy, now) ==
    [columns |-> d.columns \cup TimestampColumns,
     rows |-> [i \in 1..Len(d.rows) |->
                 [c \in d.columns \cup TimestampColumns |->
                     IF c \in d.columns THEN d.rows[i][c]
                     ELSE IF strategy = "upsert" THEN TNull ELSE now]]]

\* lines 651-705: the columns coerced to the table's native type
CoercedColumns ==
    IF table_exists /\ job.load_strategy \in {"upsert", "insert"}
    THEN (df.columns \cup TimestampColumns) \cap existing_column_types
    ELSE {}

\* lines 620-705.  The native types are not modelled: on the values of this
\* model every conversion returns its argument, and a conversion may raise.
Prepare ==
    /\ pc = "prepare"
    /\ clock' = clock + 1
    /\ log' = (IF CoercedColumns # {} THEN log \o << "PREPARE", "COERCE" >>
               ELSE Append(log, "PREPARE"))
    /\ \/ /\ df' = WithTimestamps(df, job.load_strategy, clock)
          /\ pc' = "constraint"
          /\ err' = err
       \/ /\ CoercedColumns # {}
          /\ df' = WithTimestamps(df, job.load_strategy, clock)
          /\ RaiseInLoad("coerce_failed")
    /\ UNCHANGED << config, portal, rerun, dest, run, airflow, api, existing_columns,
                    existing_column_types, table_exists, todo, rows_processed,
                    rows_failed, start_idx, conn >>

\* lines 707-796: upsert needs a constraint on the upsert keys
CheckConstraint ==
    /\ pc = "constraint"
    /\ IF job.load_strategy = "upsert" /\ job.upsert_keys # <<>>
       THEN /\ log' = Append(log, "CONSTRAINT CHECK")
            /\ IF constraint_exists(dest, job.upsert_keys)
               THEN pc' = "load" /\ err' = err
               ELSE IF Range(job.upsert_keys) = PkColumns(job.column_mappings)
                       /\ PkColumns(job.column_mappings) # {}
               THEN pc' = "provision" /\ err' = err
               ELSE RaiseInLoad("missing_constraint")
       ELSE pc' = "load" /\ UNCHANGED << err, log >>
    /\ UNCHANGED << config, portal, rerun, dest, run, airflow, api, locals, conn, clock >>

\* lines 742-757: an existing primary key is dropped first
DropExistingPk ==
    /\ pc = "provision"
    /\ IF dest.exists /\ PrimaryKeys(dest) # {}
       THEN /\ log' = Append(log, "DROP CONSTRAINT")
            /\ \/ /\ dest' = [dest EXCEPT !.constraints = @ \ PrimaryKeys(dest)]
                  /\ pc' = "add_pk"
                  /\ err' = err
               \/ /\ RaiseInLoad("pk_add_failed")
                  /\ dest' = dest
       ELSE pc' = "add_pk" /\ UNCHANGED << dest, err, log >>
    /\ UNCHANGED << config, portal, rerun, run, airflow, api, locals, conn, clock >>

\* ALTER TABLE ... ADD PRIMARY KEY is accepted
AddPkAccepted(t, keys) ==
    /\ t.exists
    /\ keys \subseteq t.cols
    /\ PrimaryKeys(t) = {}
    /\ ~Violates([t EXCEPT !.constraints = {Constraint("PRIMARY KEY", keys)}], t.rows)

\* lines 759-780: the primary key on the upsert keys is added
AddPrimaryKey ==
    /\ pc = "add_pk"
    /\ log' = Append(log, "ADD PRIMARY KEY")
    /\ \/ /\ AddPkAccepted(dest, Range(job.upsert_keys))
          /\ dest' = [dest EXCEPT !.constraints =
                         @ \cup {Constraint("PRIMARY KEY", Range(job.upsert_keys))}]
          /\ pc' = "load"
          /\ err' = err
       \/ /\ RaiseInLoad("pk_add_failed")
          /\ dest' = dest
    /\ UNCHANGED << config, portal, rerun, run, airflow, api, locals, conn, clock >>

\* ---- the load loop, lines 798-932 ----
total_rows == Len(df.rows)
end_idx == Min(start_idx + job.batch_size, total_rows)
\* lines 806-808: the slice df.iloc[start_idx:end_idx]
records_fromStart == SubSeq(df.rows, 1, end_idx)

records == SubSeq(df.rows, start_idx + 1, end_idx)

UsesUpsert == job.load_strategy = "upsert" /\ job.upsert_keys # <<>>

\* the destination accepts the DML of the current slice
SliceAccepted ==
    IF UsesUpsert
    THEN UpsertAccepted(dest, df.columns, Range(job.upsert_keys), records, clock)
    ELSE InsertAccepted(dest, df.columns, records, clock)

SliceWritten ==
    IF UsesUpsert
    THEN UpsertInto(dest, df.columns, Range(job.upsert_keys), records, clock)
    ELSE InsertInto(dest, df.columns, records, clock)

\* line 900: int((rows_processed / total_rows) * 100), computed in double
\* precision.  For up to 59 rows the result is the exact floor except for
\* 29 of 50 rows: 29 / 50 * 100 is 57.99999999999999, which int() truncates.
RoundedBelow == {<< 29, 50 >>}

progress(processed, total) ==
    IF << processed, total >> \in RoundedBelow
    THEN (processed * 100) \div total - 1
    ELSE (processed * 100) \div total

\* lines 897-907: the progress update after a written slice
ProgressUpdate(r, processed, total) ==
    [r EXCEPT !.rows_processed = processed,
              !.progress_percentage = progress(processed, total)]

\* lines 916-932: the update after a rejected slice
SliceFailedUpdate(r, failed) == [r EXCEPT !.rows_failed = failed]

\* the index the loop continues with after a written slice (range step)
NextStart_skipsRow(i, batch_size) == i + batch_size + 1

NextStart(i, batch_size) == i + batch_size

\* lines 804-914: one slice is submitted and written
WriteSlice ==
    /\ pc = "load"
    /\ start_idx < total_rows
    /\ SliceAccepted
    /\ dest' = SliceWritten
    /\ rows_processed' = rows_processed + Len(records)
    /\ run' = ProgressUpdate(run, rows_processed + Len(records), total_rows)
    /\ start_idx' = NextStart(start_idx, job.batch_size)
    /\ log' = Append(log, "DML")
    /\ clock' = clock + 1
    /\ UNCHANGED << config, portal, rerun, airflow, api, pc, df, existing_columns,
                    existing_column_types, table_exists, todo, rows_failed,
                    conn, err >>

\* lines 916-932: the slice is rejected (by the destination's rules, or by a
\* failure of the connection); its rows are counted as failed and the error
\* is raised again
SliceFails ==
    /\ pc = "load"
    /\ start_idx < total_rows
    /\ rows_failed' = rows_failed + Len(records)
    /\ run' = SliceFailedUpdate(run, rows_failed + Len(records))
    /\ log' = Append(log, "DML")
    /\ clock' = clock + 1
    /\ RaiseInLoad("dml_rejected")
    /\ UNCHANGED << config, portal, rerun, dest, airflow, api, df, existing_columns,
                    existing_column_types, table_exists, todo, rows_processed,
                    start_idx, conn >>

\* lines 895-932: the DML of the slice succeeds and the commit of the
\* progress update (line 907) raises.  rows_processed was incremented at line
\* 897, inside the same try, so the except clause adds the slice to
\* rows_failed as well.  What the record keeps depends on how the commit
\* failed: nothing (the second commit fails too), the failed count only (the
\* first commit was rolled back), or both counts (the first commit reached
\* the database before it raised, or its changes are flushed by the second).
ProgressCommitFails ==
    /\ pc = "load"
    /\ start_idx < total_rows
    /\ SliceAccepted
    /\ dest' = SliceWritten
    /\ rows_processed' = rows_processed + Len(records)
    /\ rows_failed' = rows_failed + Len(records)
    /\ run' \in { run,
                  SliceFailedUpdate(run, rows_failed + Len(records)),
                  SliceFailedUpdate(
                      ProgressUpdate(run, rows_processed + Len(records), total_rows),
                      rows_failed + Len(records)) }
    /\ log' = Append(log, "DML")
    /\ clock' = clock + 1
    /\ RaiseInLoad("progress_update_failed")
    /\ UNCHANGED << config, portal, rerun, airflow, api, df, existing_columns,
                    existing_column_types, table_exists, todo, start_idx, conn >>

\* lines 934-942: the final update after the loop
FinalCounts_noProgress(r, processed, failed) ==
    [r EXCEPT !.rows_processed = processed, !.rows_failed = failed]

FinalCounts(r, processed, failed) ==
    [r EXCEPT !.rows_processed = processed,
              !.rows_failed = failed,
              !.progress_percentage = 100]

FinalUpdate ==
    /\ pc = "load"
    /\ start_idx >= total_rows
    /\ run' = FinalCounts(run, rows_processed, rows_failed)
    /\ pc' = "close"
    /\ UNCHANGED << config, portal, rerun, dest, airflow, api, locals, conn, err, log, clock >>

\* lines 951-952: finally: conn.close()
Close ==
    /\ pc = "close"
    /\ conn' = "closed"
    /\ log' = Append(log, "CLOSE")
    /\ pc' = (IF err = NoErr THEN "complete" ELSE "handler")
    /\ UNCHANGED << config, portal, rerun, dest, run, airflow, api, locals, err, clock >>

\* lines 96-104: the run is marked completed
CompletedUpdate(r) ==
    [r EXCEPT !.status = "completed", !.progress_percentage = 100]

Complete ==
    /\ pc = "complete"
    /\ run' = CompletedUpdate(run)
    /\ pc' = "returned"
    /\ UNCHANGED << config, portal, rerun, dest, airflow, api, locals, conn, err, log, clock >>

\* lines 113-134: the run is marked failed and the error raised again
FailedUpdate_noMessage(r, e) == [r EXCEPT !.status = "failed"]

FailedUpdate(r, e) == [r EXCEPT !.status = "failed", !.error_message = e]

Handler ==
    /\ pc = "handler"
    /\ run' = FailedUpdate(run, err)
    /\ pc' = "raised"
    /\ UNCHANGED << config, portal, rerun, dest, airflow, api, locals, conn, err, log, clock >>

\* ------------------------------------------------------------- job API
\* an optional field of ETLJobUpdate: given, or left out of the request
Given(v) == [set |-> TRUE, val |-> v]
NoName == [set |-> FALSE, val |-> ""]
NoList == [set |-> FALSE, val |-> <<>>]

MapIdExcluded == << Mapping("id", "id", TRUE, TRUE, <<>>),
                    Mapping("v", "v", TRUE, FALSE, <<>>) >>

\* what the requests in the model can carry
ApiStrategies == {"insert", "upsert"}
ApiKeys == {<<>>, <<"id">>, <<"v">>}
ApiMappings == {MapIdV, MapNoPk, MapIdExcluded}

NoJob == [exists |-> FALSE, load_strategy |-> "insert", upsert_keys |-> <<>>,
          create_new_table |-> FALSE, new_table_ddl |-> NoDDL,
          column_mappings |-> <<>>, batch_size |-> 1]

\* primary_key_columns of create_job (lines 63-67) and update_job (lines 262-266)
primary_key_columns(ms) ==
    {ms[i].dest_column :
        i \in {j \in 1..Len(ms) : /\ ms[j].is_primary_key
                                   /\ ~ms[j].exclude
                                   /\ ms[j].dest_column # NoCol}}

\* the three checks made for strategy upsert (lines 69-97 and 276-307):
\* a primary key column exists, upsert keys are given, every key is primary
UpsertChecks(ms, keys) ==
    /\ primary_key_columns(ms) # {}
    /\ keys # <<>>
    /\ Range(keys) \subseteq primary_key_columns(ms)

\* create_job, lines 61-97: the request passes validation
CreateAccepted(b) ==
    b.load_strategy = "upsert" => UpsertChecks(b.column_mappings, b.upsert_keys)

\* crud.create_etl_job: the job row and its mappings; the DDL is generated
\* when a new table is asked for
CreatedJob(b) ==
    [exists |-> TRUE, load_strategy |-> b.load_strategy,
     upsert_keys |-> b.upsert_keys, create_new_table |-> b.create_new_table,
     new_table_ddl |-> IF b.create_new_table THEN generate_ddl(b.column_mappings)
                       ELSE NoDDL,
     column_mappings |-> b.column_mappings, batch_size |-> b.batch_size]

\* POST /etl-jobs
CreateJob(b) ==
    /\ ~job.exists
    /\ request' = [op |-> "create_job", body |-> b]
    /\ IF CreateAccepted(b)
       THEN job' = CreatedJob(b) /\ response' = "201"
       ELSE job' = job /\ response' = "400"
    /\ UNCHANGED << source, is_paused, schedule, rerun, dest, run, airflow, api, pc,
                    locals, conn, err, log, clock >>

\* update_job, lines 255-307: the validation runs only for a request that
\* carries column_mappings (with strategy upsert, or with no strategy)
UpdateAccepted(j, b) ==
    ( /\ \/ (b.load_strategy.set /\ b.load_strategy.val = "upsert")
         \/ (b.column_mappings.set /\ ~b.load_strategy.set)
      /\ b.column_mappings.set
      /\ (IF b.load_strategy.set THEN b.load_strategy.val ELSE j.load_strategy)
            = "upsert" )
    => UpsertChecks(b.column_mappings.val,
                    IF b.upsert_keys.set THEN b.upsert_keys.val ELSE j.upsert_keys)

\* crud.update_etl_job, lines 268-293: every field the request carries is set
UpdatedJob(j, b) ==
    [j EXCEPT !.load_strategy = IF b.load_strategy.set THEN b.load_strategy.val ELSE @,
              !.upsert_keys = IF b.upsert_keys.set THEN b.upsert_keys.val ELSE @,
              !.column_mappings =
                  IF b.column_mappings.set THEN b.column_mappings.val ELSE @]

\* PUT /etl-jobs/{job_id}
UpdateJob(b) ==
    /\ job.exists
    /\ request' = [op |-> "update_job", body |-> b]
    /\ IF UpdateAccepted(job, b)
       THEN job' = UpdatedJob(job, b) /\ response' = "200"
       ELSE job' = job /\ response' = "400"
    /\ UNCHANGED << source, is_paused, schedule, rerun, dest, run, airflow, api, pc,
                    locals, conn, err, log, clock >>

\* crud.update_column_mappings, lines 312-391: the mappings are replaced and
\* the DDL is generated again from a non-empty list
ReplacedMappings(j, ms) ==
    [j EXCEPT !.column_mappings = ms,
              !.new_table_ddl = IF ms # <<>> THEN DDLGenerator_generate(ms) ELSE @]

\* PUT /etl-jobs/{job_id}/mappings
UpdateMappings(ms) ==
    /\ job.exists
    /\ request' = [op |-> "update_mappings", body |-> [column_mappings |-> ms]]
    /\ job' = ReplacedMappings(job, ms)
    /\ response' = "200"
    /\ UNCHANGED << source, is_paused, schedule, rerun, dest, run, airflow, api, pc,
                    locals, conn, err, log, clock >>

\* POST /etl-jobs/{job_id}/execute, lines 459-464: the job is paused
ExecuteRejected ==
    /\ job.exists
    /\ is_paused
    /\ request' = [op |-> "execute", body |-> NoBody]
    /\ response' = "400"
    /\ UNCHANGED << config, is_paused, schedule, rerun, dest, run, airflow, api, pc,
                    locals, conn, err, log, clock >>

\* POST /etl-jobs/{job_id}/pause
PauseJob ==
    /\ job.exists
    /\ is_paused' = TRUE
    /\ schedule' = IF schedule.exists THEN [schedule EXCEPT !.enabled = FALSE]
                   ELSE schedule
    /\ request' = [op |-> "pause_job", body |-> NoBody]
    /\ response' = "200"
    /\ UNCHANGED << config, rerun, dest, run, airflow, api, pc, locals, conn, err,
                    log, clock >>

\* POST /etl-jobs/{job_id}/resume
ResumeJob ==
    /\ job.exists
    /\ is_paused' = FALSE
    /\ schedule' = IF schedule.exists THEN [schedule EXCEPT !.enabled = TRUE]
                   ELSE schedule
    /\ request' = [op |-> "resume_job", body |-> NoBody]
    /\ response' = "200"
    /\ UNCHANGED << config, rerun, dest, run, airflow, api, pc, locals, conn, err,
                    log, clock >>

\* ------------------------------------------------------- schedule API
\* the schedule row create_schedule stores, lines 116-124
CreatedSchedule(enabled) == [exists |-> TRUE, enabled |-> enabled]

\* POST /schedules: 404 without the job, 400 when the job has a schedule
CreateSchedule(enabled) ==
    /\ request' = [op |-> "create_schedule", body |-> [enabled |-> enabled]]
    /\ IF ~job.exists
       THEN schedule' = schedule /\ response' = "404"
       ELSE IF schedule.exists
       THEN schedule' = schedule /\ response' = "400"
       ELSE schedule' = CreatedSchedule(enabled) /\ response' = "201"
    /\ UNCHANGED << config, is_paused, rerun, dest, run, airflow, api, pc, locals,
                    conn, err, log, clock >>

\* PUT /schedules/{schedule_id}: the fields the request carries are set
UpdateSchedule(enabled) ==
    /\ schedule.exists
    /\ schedule' = [schedule EXCEPT !.enabled = enabled]
    /\ request' = [op |-> "update_schedule", body |-> [enabled |-> enabled]]
    /\ response' = "200"
    /\ UNCHANGED << config, is_paused, rerun, dest, run, airflow, api, pc, locals,
                    conn, err, log, clock >>

\* DELETE /schedules/{schedule_id}
DeleteSchedule ==
    /\ schedule.exists
    /\ schedule' = NoSchedule
    /\ request' = [op |-> "delete_schedule", body |-> NoBody]
    /\ response' = "204"
    /\ UNCHANGED << config, is_paused, rerun, dest, run, airflow, api, pc, locals,
                    conn, err, log, clock >>

\* POST /schedules/{schedule_id}/enable
EnableSchedule ==
    /\ schedule.exists
    /\ schedule' = [schedule EXCEPT !.enabled = TRUE]
    /\ request' = [op |-> "enable_schedule", body |-> NoBody]
    /\ response' = "200"
    /\ UNCHANGED << config, is_paused, rerun, dest, run, airflow, api, pc, locals,
                    conn, err, log, clock >>

\* POST /schedules/{schedule_id}/disable
DisableSchedule ==
    /\ schedule.exists
    /\ schedule' = [schedule EXCEPT !.enabled = FALSE]
    /\ request' = [op |-> "disable_schedule", body |-> NoBody]
    /\ response' = "200"
    /\ UNCHANGED << config, is_paused, rerun, dest, run, airflow, api, pc, locals,
                    conn, err, log, clock >>

\* the bodies of create_job and update_job requests
CreateBodies ==
    [load_strategy : ApiStrategies, upsert_keys : ApiKeys,
     column_mappings : ApiMappings, create_new_table : BOOLEAN,
     batch_size : {1}]

UpdateBodies ==
    [load_strategy : {NoName} \cup {Given(x) : x \in ApiStrategies},
     upsert_keys : {NoList} \cup {Given(k) : k \in ApiKeys},
     column_mappings : {NoList} \cup {Given(ms) : ms \in ApiMappings}]

\* ---------------------------------------------------------- specification
Next ==
    \/ ExecuteJobCreate
    \/ TriggerDag
    \/ TriggerDagFails
    \/ GetJobRun
    \/ TaskStart
    \/ TaskExit
    \/ Start
    \/ StartFails
    \/ Extract
    \/ ExtractFails
    \/ Transform
    \/ Connect
    \/ ConnectFails
    \/ CreateSchema
    \/ PreCreate
    \/ Snapshot
    \/ ReconcileTruncateInsert
    \/ Recreate
    \/ ReconcileInsertUpsert
    \/ AddColumn
    \/ Refresh
    \/ Prepare
    \/ CheckConstraint
    \/ DropExistingPk
    \/ AddPrimaryKey
    \/ WriteSlice
    \/ SliceFails
    \/ FinalUpdate
    \/ Close
    \/ Complete
    \/ Handler

Spec == Init /\ [][Next]_vars

\* ------------------- specification of an upsert job executed twice
\* an upsert job and a destination without rows
InitRerun ==
    /\ Init
    /\ job.load_strategy = "upsert"
    /\ dest.rows = <<>>

NextRerun ==
    \/ ExecuteJobCreate
    \/ ExecuteAgain
    \/ TriggerDag
    \/ TriggerDagFails
    \/ GetJobRun
    \/ TaskStart
    \/ TaskExit
    \/ Start
    \/ StartFails
    \/ Extract
    \/ ExtractFails
    \/ Transform
    \/ Connect
    \/ ConnectFails
    \/ CreateSchema
    \/ PreCreate
    \/ Snapshot
    \/ ReconcileInsertUpsert
    \/ Prepare
    \/ CheckConstraint
    \/ WriteSlice
    \/ SliceFails
    \/ FinalUpdate
    \/ Close
    \/ Complete
    \/ Handler

SpecRerun == InitRerun /\ [][NextRerun]_vars

\* --------------------------------- specification of a run of many slices
\* fifty source rows, loaded with strategy insert into a table without
\* constraints
LongBatch == [i \in 1..50 |-> SrcRow("1", "a", "x")]

InitLong ==
    /\ \E bs \in 1..MaxBatchSize :
          job = [exists |-> TRUE, load_strategy |-> "insert", upsert_keys |-> <<>>,
                 create_new_table |-> FALSE, new_table_ddl |-> NoDDL,
                 column_mappings |-> MapIdOnly, batch_size |-> bs]
    /\ source = LongBatch
    /\ dest = Table({"id"}, {}, <<>>)
    /\ run = NoRun
    /\ airflow = [state |-> "none", try_number |-> 0]
    /\ api = "idle"
    /\ pc = "idle"
    /\ df = EmptyDF
    /\ existing_columns = {}
    /\ existing_column_types = {}
    /\ table_exists = FALSE
    /\ todo = {}
    /\ conn = "none"
    /\ rows_processed = 0
    /\ rows_failed = 0
    /\ start_idx = 0
    /\ err = NoErr
    /\ log = <<>>
    /\ clock = 2
    /\ is_paused = FALSE
    /\ schedule = NoSchedule
    /\ request = NoRequest
    /\ response = NoResponse
    /\ executions = 0
    /\ first_dest = NoTable
    /\ peer = NoPeer

NextLong ==
    \/ ExecuteJobCreate
    \/ TriggerDag
    \/ TaskStart
    \/ TaskExit
    \/ Start
    \/ Extract
    \/ Transform
    \/ Connect
    \/ CreateSchema
    \/ PreCreate
    \/ Snapshot
    \/ ReconcileInsertUpsert
    \/ Prepare
    \/ CheckConstraint
    \/ WriteSlice
    \/ FinalUpdate
    \/ Close
    \/ Complete
    \/ Handler

SpecLong == InitLong /\ [][NextLong]_vars

\* ------------------- specification of the extract and transform stages
MapAllExcluded == << Mapping("id", "id", TRUE, TRUE, <<>>),
                     Mapping("v", "v", FALSE, TRUE, <<>>) >>
MapSharedDest == << Mapping("id", "id", TRUE, FALSE, <<>>),
                    Mapping("v", "v", FALSE, TRUE, <<>>),
                    Mapping("r", "v", FALSE, FALSE, <<"UPPER">>) >>
MapTableOnly == << Mapping("id", "id", TRUE, FALSE, <<>>),
                   Mapping(NoCol, "region", FALSE, FALSE, <<>>) >>

\* mapping lists the API accepts: ColumnMapping has no uniqueness rule on
\* dest_column, update_mappings accepts the empty list
TransformMappingLists ==
    MappingLists \cup {<<>>, MapAllExcluded, MapSharedDest, MapTableOnly}

\* any mapping list and source; the destination cannot be reached, so each
\* try ends after the transform stage
InitTransform ==
    /\ \E ms \in TransformMappingLists :
          job = [exists |-> TRUE, load_strategy |-> "insert", upsert_keys |-> <<>>,
                 create_new_table |-> FALSE, new_table_ddl |-> NoDDL,
                 column_mappings |-> ms, batch_size |-> 1]
    /\ source \in SourceBatches
    /\ dest = NoTable
    /\ run = NoRun
    /\ airflow = [state |-> "none", try_number |-> 0]
    /\ api = "idle"
    /\ pc = "idle"
    /\ df = EmptyDF
    /\ existing_columns = {}
    /\ existing_column_types = {}
    /\ table_exists = FALSE
    /\ todo = {}
    /\ conn = "none"
    /\ rows_processed = 0
    /\ rows_failed = 0
    /\ start_idx = 0
    /\ err = NoErr
    /\ log = <<>>
    /\ clock = 2
    /\ is_paused = FALSE
    /\ schedule = NoSchedule
    /\ request = NoRequest
    /\ response = NoResponse
    /\ executions = 0
    /\ first_dest = NoTable
    /\ peer = NoPeer

NextTransform ==
    \/ ExecuteJobCreate
    \/ TriggerDag
    \/ GetJobRun
    \/ TaskStart
    \/ TaskExit
    \/ Start
    \/ Extract
    \/ ExtractFails
    \/ Transform
    \/ ConnectFails
    \/ Handler

SpecTransform == InitTransform /\ [][NextTransform]_vars

\* ---- mapping configurations through the whole pipeline ----
\* the 'none' entry the mapping editor stores for "no transformation"
MapNone == << Mapping("id", "id", TRUE, FALSE, <<>>),
              Mapping("v", "v", FALSE, FALSE, <<"none">>) >>

\* insert jobs over every mapping configuration, with a reachable destination
InitMappings ==
    /\ \E ms \in {MapIdV, MapBogus, MapNone, <<>>, MapAllExcluded, MapSharedDest,
                  MapTableOnly},
          bs \in 1..MaxBatchSize :
         \E ddl \in {NoDDL, generate_ddl(ms)} :
            job = [exists |-> TRUE, load_strategy |-> "insert", upsert_keys |-> <<>>,
                   create_new_table |-> FALSE, new_table_ddl |-> ddl,
                   column_mappings |-> ms, batch_size |-> bs]
    /\ source \in SourceBatches
    /\ dest \in { NoTable,
                  Table({"id", "v"}, {}, <<>>),
                  Table({"id", "v", "region"}, {},
                        << [c \in {"id", "v", "region"} |-> "1"] >>) }
    /\ run = NoRun
    /\ airflow = [state |-> "none", try_number |-> 0]
    /\ api = "idle"
    /\ pc = "idle"
    /\ df = EmptyDF
    /\ existing_columns = {}
    /\ existing_column_types = {}
    /\ table_exists = FALSE
    /\ todo = {}
    /\ conn = "none"
    /\ rows_processed = 0
    /\ rows_failed = 0
    /\ start_idx = 0
    /\ err = NoErr
    /\ log = <<>>
    /\ clock = 2
    /\ is_paused = FALSE
    /\ schedule = NoSchedule
    /\ request = NoRequest
    /\ response = NoResponse
    /\ executions = 0
    /\ first_dest = NoTable
    /\ peer = NoPeer

NextMappings ==
    \/ ExecuteJobCreate
    \/ TriggerDag
    \/ GetJobRun
    \/ TaskStart
    \/ TaskExit
    \/ Start
    \/ Extract
    \/ ExtractFails
    \/ Transform
    \/ Connect
    \/ ConnectFails
    \/ CreateSchema
    \/ PreCreate
    \/ Snapshot
    \/ ReconcileInsertUpsert
    \/ AddColumn
    \/ Refresh
    \/ Prepare
    \/ CheckConstraint
    \/ WriteSlice
    \/ SliceFails
    \/ ProgressCommitFails
    \/ FinalUpdate
    \/ Close
    \/ Complete
    \/ Handler

SpecMappings == InitMappings /\ [][NextMappings]_vars

\* ---- provisioning of the upsert primary key ----
\* upsert jobs on id, declared primary key in the mappings, against tables
\* whose primary key is not on id
InitProvision ==
    /\ \E bs \in 1..MaxBatchSize :
          job = [exists |-> TRUE, load_strategy |-> "upsert", upsert_keys |-> << "id" >>,
                 create_new_table |-> FALSE, new_table_ddl |-> NoDDL,
                 column_mappings |-> MapIdV, batch_size |-> bs]
    /\ source \in SourceBatches
    /\ dest \in { Table({"id", "v"}, {Constraint("PRIMARY KEY", {"v"})},
                        << Row2("1", "A") >>),
                  Table({"id", "v"}, {Constraint("PRIMARY KEY", {"v"})},
                        << Row2("1", "A"), Row2("1", "B") >>),
                  Table({"id", "v"}, {}, <<>>) }
    /\ run = NoRun
    /\ airflow = [state |-> "none", try_number |-> 0]
    /\ api = "idle"
    /\ pc = "idle"
    /\ df = EmptyDF
    /\ existing_columns = {}
    /\ existing_column_types = {}
    /\ table_exists = FALSE
    /\ todo = {}
    /\ conn = "none"
    /\ rows_processed = 0
    /\ rows_failed = 0
    /\ start_idx = 0
    /\ err = NoErr
    /\ log = <<>>
    /\ clock = 2
    /\ is_paused = FALSE
    /\ schedule = NoSchedule
    /\ request = NoRequest
    /\ response = NoResponse
    /\ executions = 0
    /\ first_dest = NoTable
    /\ peer = NoPeer

NextProvision ==
    \/ ExecuteJobCreate
    \/ TriggerDag
    \/ GetJobRun
    \/ TaskStart
    \/ TaskExit
    \/ Start
    \/ Extract
    \/ Transform
    \/ Connect
    \/ CreateSchema
    \/ PreCreate
    \/ Snapshot
    \/ ReconcileInsertUpsert
    \/ Prepare
    \/ CheckConstraint
    \/ DropExistingPk
    \/ AddPrimaryKey
    \/ WriteSlice
    \/ SliceFails
    \/ FinalUpdate
    \/ Close
    \/ Complete
    \/ Handler

SpecProvision == InitProvision /\ [][NextProvision]_vars

\* ---- two concurrent runs of one insert job (DAG max_active_runs = 10) ----
\* The second run executes the same reconciliation code on its own
\* connection; of its state only the snapshot and the ALTER loop are kept.

\* lines 451-465: the second run's schema snapshot
PeerSnapshot ==
    /\ peer.pc = "snapshot"
    /\ dest.exists
    /\ peer' = [peer EXCEPT !.pc = "reconcile", !.existing_columns = dest.cols]
    /\ UNCHANGED << config, portal, executions, first_dest, dest, run, airflow, api, pc,
                    locals, conn, err, log, clock >>

\* lines 532-560: the second run's missing columns; its batch has the same
\* columns, as it runs the same job on the same source
PeerReconcile ==
    /\ peer.pc = "reconcile"
    /\ LET missing == (TransformedColumns(job.column_mappings) \ auto_generated_columns)
                          \ (peer.existing_columns \ auto_generated_columns)
       IN  peer' = IF missing # {} /\ job.load_strategy = "insert"
                   THEN [peer EXCEPT !.pc = "add_columns", !.todo = missing]
                   ELSE [peer EXCEPT !.pc = "done"]
    /\ UNCHANGED << config, portal, executions, first_dest, dest, run, airflow, api, pc,
                    locals, conn, err, log, clock >>

\* lines 570-578: one ALTER TABLE ... ADD COLUMN of the second run; the
\* statement has no IF NOT EXISTS, so it is rejected when the column exists
PeerAddColumn ==
    /\ peer.pc = "add_columns"
    /\ \E col \in peer.todo :
        \/ /\ dest.exists /\ col \notin dest.cols
           /\ dest' = AddColumnTo(dest, col)
           /\ peer' = [peer EXCEPT !.todo = @ \ {col},
                                   !.pc = IF peer.todo = {col} THEN "refresh"
                                          ELSE "add_columns"]
        \/ /\ peer' = [peer EXCEPT !.pc = "failed"]
           /\ dest' = dest
    /\ UNCHANGED << config, portal, executions, first_dest, run, airflow, api, pc,
                    locals, conn, err, log, clock >>

\* lines 580-583: the second run fetches the column list again
PeerRefresh ==
    /\ peer.pc = "refresh"
    /\ peer' = [peer EXCEPT !.pc = "done", !.existing_columns = dest.cols]
    /\ UNCHANGED << config, portal, executions, first_dest, dest, run, airflow, api, pc,
                    locals, conn, err, log, clock >>

\* an insert job whose table lacks at least one mapped column, and a second
\* run of it that has reached its snapshot
InitConcurrent ==
    /\ \E ms \in {MapIdV, MapIdVRegion}, bs \in 1..MaxBatchSize :
          job = [exists |-> TRUE, load_strategy |-> "insert", upsert_keys |-> <<>>,
                 create_new_table |-> FALSE, new_table_ddl |-> NoDDL,
                 column_mappings |-> ms, batch_size |-> bs]
    /\ source \in SourceBatches
    /\ dest \in { Table({"id"}, {}, << [c \in {"id"} |-> "1"] >>),
                  Table({"id", "v"}, {}, <<>>) }
    /\ run = NoRun
    /\ airflow = [state |-> "none", try_number |-> 0]
    /\ api = "idle"
    /\ pc = "idle"
    /\ df = EmptyDF
    /\ existing_columns = {}
    /\ existing_column_types = {}
    /\ table_exists = FALSE
    /\ todo = {}
    /\ conn = "none"
    /\ rows_processed = 0
    /\ rows_failed = 0
    /\ start_idx = 0
    /\ err = NoErr
    /\ log = <<>>
    /\ clock = 2
    /\ is_paused = FALSE
    /\ schedule = NoSchedule
    /\ request = NoRequest
    /\ response = NoResponse
    /\ executions = 0
    /\ first_dest = NoTable
    /\ peer = [NoPeer EXCEPT !.pc = "snapshot"]

NextConcurrent ==
    \/ ExecuteJobCreate
    \/ TriggerDag
    \/ TaskStart
    \/ TaskExit
    \/ Start
    \/ Extract
    \/ Transform
    \/ Connect
    \/ CreateSchema
    \/ PreCreate
    \/ Snapshot
    \/ ReconcileInsertUpsert
    \/ AddColumn
    \/ Refresh
    \/ Prepare
    \/ CheckConstraint
    \/ WriteSlice
    \/ FinalUpdate
    \/ Close
    \/ Complete
    \/ Handler
    \/ PeerSnapshot
    \/ PeerReconcile
    \/ PeerAddColumn
    \/ PeerRefresh

SpecConcurrent == InitConcurrent /\ [][NextConcurrent]_vars

\* ------------------------------------- specification of the job API
\* no job yet; jobs come into being through create_job
InitPortal ==
    /\ job = NoJob
    /\ source = << SrcRow("1", "a", "x") >>
    /\ dest = NoTable
    /\ run = NoRun
    /\ airflow = [state |-> "none", try_number |-> 0]
    /\ api = "idle"
    /\ pc = "idle"
    /\ df = EmptyDF
    /\ existing_columns = {}
    /\ existing_column_types = {}
    /\ table_exists = FALSE
    /\ todo = {}
    /\ conn = "none"
    /\ rows_processed = 0
    /\ rows_failed = 0
    /\ start_idx = 0
    /\ err = NoErr
    /\ log = <<>>
    /\ clock = 2
    /\ is_paused = FALSE
    /\ schedule = NoSchedule
    /\ request = NoRequest
    /\ response = NoResponse
    /\ executions = 0
    /\ first_dest = NoTable
    /\ peer = NoPeer

NextPortal ==
    \/ \E b \in CreateBodies : CreateJob(b)
    \/ \E b \in UpdateBodies : UpdateJob(b)
    \/ \E ms \in ApiMappings \cup {<<>>} : UpdateMappings(ms)
    \/ ExecuteJobCreate
    \/ ExecuteRejected
    \/ PauseJob
    \/ ResumeJob
    \/ \E enabled \in BOOLEAN : CreateSchedule(enabled)
    \/ \E enabled \in BOOLEAN : UpdateSchedule(enabled)
    \/ DeleteSchedule
    \/ EnableSchedule
    \/ DisableSchedule

SpecPortal == InitPortal /\ [][NextPortal]_vars

\* ------------------------------------------------------------- claims
MutatingStatements ==
    {"CREATE SCHEMA", "CREATE TABLE", "DROP TABLE", "TRUNCATE", "ADD COLUMN",
     "DROP CONSTRAINT", "ADD PRIMARY KEY", "DML"}

Count(seq, x) == Cardinality({i \in 1..Len(seq) : seq[i] = x})

\* C1 (as claimed): once a run record's status is completed or failed, no
\* later operation (a further execute_job invocation for the same run id, a
\* poll) changes its status.
C1_TerminalAbsorbing ==
    [][run.status \in {"completed", "failed"} => run'.status = run.status]_vars

\* C1 (amended): once a run record's status is completed, no later operation
\* changes its status; failed is left again when the scheduler retries the
\* task or a poll sees the task running.
C1_CompletedAbsorbing ==
    [][run.status = "completed" => run'.status = "completed"]_vars

C1_Witness == run.status = "completed" /\ airflow.state = "success"

\* C2 (as claimed): a run record's status becomes completed or failed only
\* from running, never directly from pending, at every failure point.
C2_OnlyFromRunning ==
    [][(run'.status \in {"completed", "failed"} /\ run'.status # run.status)
          => run.status = "running"]_vars

\* C2 (amended): a run record becomes completed only from running; it becomes
\* failed only from running, or directly from pending when the scheduler
\* trigger fails in the execute endpoint or execute_job finds no job; it
\* never returns to pending.
C2_TerminalFromRunningOrEarlyFailure ==
    [][/\ (run'.status = "completed" /\ run.status # "completed")
            => run.status = "running"
       /\ (run'.status = "failed" /\ run.status # "failed")
            => \/ run.status = "running"
               \/ run.status = "pending" /\ api = "trigger"
               \/ run.status = "pending" /\ pc = "handler" /\ err = "job_not_found"
       /\ (run'.status = "pending" /\ run.status # "pending")
            => run.status = "none"]_vars

C2_Witness == run.status = "failed" /\ run.error_message = "trigger_failed"

\* C3: in every execute_job invocation in which a stage raises, the record is
\* persisted as failed with error_message equal to the raised error's message,
\* the error is raised again to the caller, and after the error no stage or
\* slice is run by the engine (only the connection is closed).
C3_FailureIsRecordedAndReraised ==
    [][/\ (err' # NoErr /\ pc' # "idle") => pc' \in {"close", "handler", "raised"}
       /\ (err # NoErr /\ pc # "idle")
            => \/ log' = log
               \/ pc = "close" /\ log' = Append(log, "CLOSE")
       /\ (pc = "handler" /\ pc' # "handler")
            => /\ pc' = "raised"
               /\ run'.status = "failed"
               /\ run'.error_message = err
               /\ err # NoErr
       /\ pc' = "returned" => err' = NoErr]_vars

C3_Witness ==
    /\ pc = "raised"
    /\ err = "dml_rejected"
    /\ run.status = "failed"
    /\ run.error_message = "dml_rejected"

EndsWith(seq, suffix) ==
    /\ Len(seq) >= Len(suffix)
    /\ SubSeq(seq, Len(seq) - Len(suffix) + 1, Len(seq)) = suffix

\* C4 (as claimed): when the DML of slice k is rejected, every row of slice k
\* is counted in the record's rows_failed, no slice after k is submitted, the
\* record's rows_processed is the total of slices 1..k-1, and the invocation
\* ends in the failure handler with those counts kept in the record.
C4_FailFastPartialCounts ==
    (err = "dml_rejected" /\ pc \in {"close", "handler", "raised"})
        => /\ run.rows_failed = Len(records)
           /\ rows_failed = Len(records)
           /\ Count(log, "DML") = (start_idx \div job.batch_size) + 1
           /\ rows_processed = start_idx
           /\ run.rows_processed = start_idx
           /\ run.status \in {"running", "failed"}
           /\ pc = "raised" => run.error_message = "dml_rejected"

\* C5 (as claimed): when an invocation fails because no DDL is available or
\* because the upsert keys have no constraint and do not match the declared
\* primary keys, no statement that changes the destination has been
\* submitted in that invocation.
C5_ConfigErrorsBeforeMutation ==
    err \in {"no_ddl", "no_ddl_recreate", "missing_constraint"}
        => \A i \in 1..Len(log) : log[i] \notin MutatingStatements

\* C6: under strategy upsert against an existing table whose column set
\* (audit columns excluded) has a column missing from or extra to the expected
\* columns, the invocation fails with the schema-mismatch error, no slice is
\* submitted and the table's columns are as the snapshot found them.
C6_UpsertSchemaMismatchFails ==
    (/\ job.load_strategy = "upsert"
     /\ "SNAPSHOT" \in Range(log)
     /\ pc # "reconcile"
     /\ table_exists
     /\ (missing_columns # {} \/ extra_columns # {}))
        => /\ err = "schema_mismatch_upsert"
           /\ pc \in {"close", "handler", "raised", "idle"}
           /\ "DML" \notin Range(log)
           /\ "ADD COLUMN" \notin Range(log)
           /\ dest.exists
           /\ dest.cols = existing_columns

C6_Witness ==
    /\ job.load_strategy = "upsert"
    /\ table_exists
    /\ extra_columns # {}
    /\ missing_columns = {}
    /\ err = "schema_mismatch_upsert"
    /\ pc = "raised"
    /\ run.status = "failed"

\* C7 (as claimed): an upsert invocation (with upsert keys) submits a slice
\* only if the destination table has a primary-key or unique constraint whose
\* column set is exactly the upsert keys; the primary key is provisioned only
\* when the mappings declare exactly those columns as primary keys; and the
\* missing-constraint error is raised before any slice.
C7_FirstSliceOnlyWithExactConstraint ==
    (job.load_strategy = "upsert" /\ job.upsert_keys # <<>>)
        => /\ "DML" \in Range(log)
                => HasExactConstraint(dest, Range(job.upsert_keys))
           /\ "ADD PRIMARY KEY" \in Range(log)
                => Range(job.upsert_keys) = PkColumns(job.column_mappings)
           /\ err = "missing_constraint" => "DML" \notin Range(log)

\* C8: under strategy insert against an existing table, reconciliation only
\* adds columns: every column, constraint and stored value the table had is
\* kept, it fails only when an ALTER TABLE ... ADD COLUMN is rejected (never
\* because of extra columns), and when it hands over to the load the table
\* has every expected column and every column the snapshot found.
C8_InsertReconcileAdditive ==
    [][(/\ job.load_strategy = "insert"
        /\ table_exists
        /\ pc \in {"reconcile", "add_columns", "refresh"})
          => /\ dest.cols \subseteq dest'.cols
             /\ dest'.exists
             /\ dest'.constraints = dest.constraints
             /\ Len(dest'.rows) = Len(dest.rows)
             /\ \A i \in 1..Len(dest.rows) :
                   \A c \in dest.cols : dest'.rows[i][c] = dest.rows[i][c]
             /\ log' # log => log' = Append(log, "ADD COLUMN")
             /\ err' # NoErr => err' = "alter_failed"
             /\ pc' \in {"reconcile", "add_columns", "refresh", "prepare", "close"}
             /\ pc' = "prepare"
                  => /\ (df.columns \ auto_generated_columns) \subseteq dest'.cols
                     /\ existing_column_types \subseteq dest'.cols
                     /\ err' = NoErr]_vars

C8_Witness ==
    /\ job.load_strategy = "insert"
    /\ table_exists
    /\ "ADD COLUMN" \in Range(log)
    /\ "region" \in dest.cols
    /\ "region" \notin existing_column_types
    /\ rows_processed > 0
    /\ err = NoErr

Hits(i) ==
    {j \in 1..Len(records) : Conflicts(dest.rows[i], Range(job.upsert_keys), records[j])}

\* the non-key, non-timestamp columns the job writes
DataColumns == df.columns \ (Range(job.upsert_keys) \cup TsCols)

\* C10 (as claimed): when a slice of a job that writes some non-key,
\* non-timestamp column is upserted, the updated_at of an already-stored row
\* that one record of the slice conflicts with changes if and only if some
\* non-key, non-timestamp column of the record differs from the stored value:
\* an unchanged record leaves the stored row untouched, a changed record
\* updates the changed columns and updated_at.
C10_UpdatedIffChanged ==
    [][(/\ pc = "load"
        /\ UsesUpsert
        /\ "updated_at" \in dest.cols
        /\ DataColumns # {}
        /\ log' = Append(log, "DML")
        /\ err' = NoErr)
          => \A i \in 1..Len(dest.rows) :
                Cardinality(Hits(i)) = 1
                  => LET rec == records[CHOOSE j \in Hits(i) : TRUE]
                         differs == \E c \in DataColumns : dest.rows[i][c] # rec[c]
                     IN  /\ (dest'.rows[i]["updated_at"] # dest.rows[i]["updated_at"])
                               <=> differs
                         /\ ~differs => dest'.rows[i] = dest.rows[i]
                         /\ differs => \A c \in DataColumns : dest'.rows[i][c] = rec[c]]_vars

\* the job a create_job or update_job request asks for
Offending(j) ==
    /\ j.load_strategy = "upsert"
    /\ j.upsert_keys # <<>>
    /\ ~(Range(j.upsert_keys) \subseteq primary_key_columns(j.column_mappings))

Handled(op) ==
    /\ request'.op = op
    /\ << job, request, response >>' # << job, request, response >>

C13_PersistedUpsertKeysValid ==
    (job.exists /\ job.load_strategy = "upsert")
    => /\ job.upsert_keys # <<>>
       /\ \A k \in Range(job.upsert_keys) :
             \E i \in 1..Len(job.column_mappings) :
                /\ job.column_mappings[i].dest_column = k
                /\ job.column_mappings[i].is_primary_key
                /\ ~job.column_mappings[i].exclude

\* C18: while the job is paused, under any interleaving of the other API
\* operations, no run record is created (the execute endpoint rejects the
\* request) and the job's schedule is never enabled.
C18_PausedJobNeverStarts ==
    [][ /\ is_paused => run' = run
        /\ is_paused' => ~schedule'.enabled ]_vars

\* the number of slices the load loop makes of n rows
Slices(n, batch_size) == (n + batch_size - 1) \div batch_size

\* C14: a run record is completed only after every slice of the run was
\* written (the invocation submitted one DML per slice, none was rejected,
\* all rows are counted), and a completed record has progress_percentage =
\* 100 and rows_failed = 0.
C14_CompletedMeansAllSlicesWritten ==
    run.status = "completed"
    => /\ run.progress_percentage = 100
       /\ run.rows_failed = 0
       /\ err = NoErr
       /\ rows_processed = total_rows
       /\ run.rows_processed = total_rows
       /\ Count(log, "DML") = Slices(total_rows, job.batch_size)

C14_Witness ==
    /\ run.status = "completed"
    /\ Count(log, "DML") >= 2
    /\ airflow.try_number = 2

\* C15: while a run record's status is running, its progress_percentage is
\* within 0..100 and never decreases from one persisted update to the next.
C15_ProgressMonotoneWhileRunning ==
    [][ (run.status = "running" /\ run'.status = "running")
        => /\ run'.progress_percentage \in 0..100
           /\ run'.progress_percentage >= run.progress_percentage ]_vars

\* C16: a run whose source yields zero rows submits no load slice; its
\* load loop ends at once with progress_percentage = 100, and the run ends
\* completed with progress_percentage = 100.
C16_ZeroRowsCompletes ==
    (run.exists /\ source = <<>>)
    => /\ Count(log, "DML") = 0
       /\ run.rows_total = 0
       /\ (pc \in {"close", "complete"} /\ err = NoErr)
             => (run.progress_percentage = 100 /\ run.rows_processed = 0)
       /\ pc = "returned"
             => (run.status = "completed" /\ run.progress_percentage = 100)

C16_Witness ==
    /\ source = <<>>
    /\ pc = "returned"
    /\ run.status = "completed"
    /\ "CONSTRAINT CHECK" \in Range(log)

\* the transform stage of this invocation has returned its batch in df
Transformed == "TRANSFORM" \in Range(log) /\ pc # "transform" /\ err # "source_column_not_found"
                  /\ err # "unknown_transformation"

ExcludedMappings == {i \in 1..Len(job.column_mappings) : job.column_mappings[i].exclude}

ReconciliationSteps ==
    {"CREATE TABLE", "DROP TABLE", "TRUNCATE", "ADD COLUMN", "PREPARE", "COERCE",
     "CONSTRAINT CHECK", "DROP CONSTRAINT", "ADD PRIMARY KEY"}

\* the stage an entry of the log belongs to
StageOf(e) ==
    CASE e = "RUNNING" -> 1
      [] e = "EXTRACT" -> 2
      [] e = "TRANSFORM" -> 3
      [] e = "DML" -> 5
      [] e = "CLOSE" -> 6
      [] OTHER -> 4

\* the stages of one invocation of execute_job are strictly ordered and
\* not repeated
StagesOrdered ==
    LET entries == Range(log)
    IN  /\ log # <<>> => log[1] = "RUNNING"
        /\ \A i \in 1..(Len(log) - 1) :
              /\ StageOf(log[i]) <= StageOf(log[i + 1])
              /\ log[i] = log[i + 1] => log[i] \in {"DML", "ADD COLUMN"}
        /\ "TRANSFORM" \in entries => "EXTRACT" \in entries
        /\ entries \cap ReconciliationSteps # {} => "TRANSFORM" \in entries
        /\ "DML" \in entries => "PREPARE" \in entries
        /\ ("DML" \in entries /\ UsesUpsert) => "CONSTRAINT CHECK" \in entries
        /\ \A s \in (entries \cap ReconciliationSteps) \ {"ADD COLUMN"} :
              Count(log, s) = 1
        /\ Count(log, "ADD COLUMN") <= Cardinality(df.columns)

\* C19 (as claimed): within one run the stages are strictly ordered, and all
\* reconciliation steps are performed once and finish before the first load
\* slice of the run is submitted: no reconciliation step is performed for a
\* run whose record already counts rows of a submitted slice.
C19_StagesOrderedInRun ==
    [][ /\ StagesOrdered'
        /\ (log' # log /\ log' # <<>> /\ log'[Len(log')] \in ReconciliationSteps)
              => (run.rows_processed = 0 /\ run.rows_failed = 0) ]_vars

\* C19 (amended): within one invocation of execute_job (one try of the
\* run's task) status running is persisted before extraction, extraction
\* comes before transformation, transformation before every reconciliation
\* step, each reconciliation step is performed once (one ALTER per missing
\* column), and all of them come before the first load slice.
C19_StagesOrderedInInvocation == StagesOrdered

C19_Witness ==
    /\ airflow.try_number = 2
    /\ run.rows_failed > 0
    /\ Count(log, "DML") >= 2
    /\ "CONSTRAINT CHECK" \in Range(log)

\* C20: after each written slice k and before slice k+1 is submitted, the
\* run record shows rows_processed equal to the total rows of slices 1..k
\* and progress_percentage = floor(rows_processed * 100 / rows_total).
C20_ProgressAfterEachSlice ==
    (pc = "load" /\ start_idx > 0)
    => /\ rows_processed = Min(start_idx, total_rows)
       /\ run.rows_processed = rows_processed
       /\ run.progress_percentage = (run.rows_processed * 100) \div run.rows_total

\* the same rows, each as many times
SameRows(a, b) == \A r \in Range(a) \cup Range(b) : Count(a, r) = Count(b, r)

\* C11: for every upsert job, executing it twice against an initially empty
\* destination leaves the same rows as executing it once, and each completed
\* execution reports every source row in rows_processed.
C11_UpsertRerunIdempotent ==
    (job.load_strategy = "upsert" /\ run.status = "completed")
    => /\ run.rows_processed = Len(source)
       /\ executions = 2 => SameRows(dest.rows, first_dest.rows)

\* C21: while the slice loop runs, the slices submitted so far are the
\* consecutive index ranges [0,B), [B,2B), ... of the batch: the k-th DML
\* starts where the one before it ended, the submitted rows are rows
\* 0..start_idx-1 each counted once, the slice about to be submitted is the
\* next at most B rows in source order, and when the loop ends exactly
\* ceil(N/B) statements were submitted, one per slice.
C21_SlicesPartitionBatch ==
    (pc = "load") =>
        LET k == Count(log, "DML")
            B == job.batch_size
        IN  /\ start_idx = k * B
            /\ rows_processed = Min(start_idx, total_rows)
            /\ (start_idx < total_rows) =>
                   /\ Len(records) \in 1..B
                   /\ start_idx + Len(records) <= total_rows
                   /\ \A i \in 1..Len(records) : records[i] = df.rows[start_idx + i]
                   /\ k < Slices(total_rows, B)
            /\ (start_idx >= total_rows) => k = Slices(total_rows, B)

C21_Witness ==
    /\ pc = "load"
    /\ total_rows = 3
    /\ job.batch_size = 2
    /\ Count(log, "DML") = 2
    /\ start_idx >= total_rows

\* C22: the destination connection is acquired at most once per invocation
\* of the loader, before any reconciliation statement, and once the load
\* stage has ended (the run is being marked completed or failed, or the
\* task has returned or raised) a connection that was acquired is closed,
\* whichever statement on it failed.
C22_ConnectionClosedAfterLoad ==
    /\ Count(log, "CONNECT") <= 1
    /\ \A i \in 1..Len(log) :
           log[i] \in ReconciliationSteps => \E j \in 1..(i - 1) : log[j] = "CONNECT"
    /\ (pc \in {"handler", "complete", "returned", "raised"}) => conn # "open"

C24_UpsertKeepsKeysAndCreated ==
    [][ (job.load_strategy = "upsert" /\ dest.exists) =>
            /\ dest'.exists
            /\ Len(dest'.rows) >= Len(dest.rows)
            /\ \A i \in 1..Len(dest.rows) :
                   \A c \in (Range(job.upsert_keys) \cup {"created_at"}) \cap dest.cols :
                       dest'.rows[i][c] = dest.rows[i][c] ]_vars

\* a stored row whose v and updated_at an upsert has rewritten, created_at kept
C24_Witness ==
    /\ UsesUpsert
    /\ "DML" \in Range(log)
    /\ {"v", "created_at", "updated_at"} \subseteq dest.cols
    /\ \E i \in 1..Len(dest.rows) :
           /\ dest.rows[i]["id"] = "1"
           /\ dest.rows[i]["v"] # "A"
           /\ dest.rows[i]["created_at"] = 1
           /\ dest.rows[i]["updated_at"] > 1

\* the job has a non-excluded mapping with a source column that lists a
\* transformation name outside the given set of accepted names
ListsNameOutside(accepted) ==
    \E i \in 1..Len(job.column_mappings) :
        LET m == job.column_mappings[i]
        IN  /\ ~m.exclude
            /\ m.source_column # NoCol
            /\ \E j \in 1..Len(m.transformations) : m.transformations[j] \notin accepted

\* no statement has reached the destination, the record is not completed, and
\* a try that ran the transform stage has raised from it
StoppedInTransform ==
    /\ Range(log) \subseteq {"RUNNING", "EXTRACT", "TRANSFORM"}
    /\ conn = "none"
    /\ run.status # "completed"
    /\ ("TRANSFORM" \in Range(log) /\ pc # "transform") =>
           /\ pc \in {"handler", "raised", "idle"}
           /\ err = "unknown_transformation"

\* C25 (as claimed): if a non-excluded mapping with a source column lists a
\* transformation name that is not in the registry, the run fails in the
\* transform stage: the record ends failed and no statement has been
\* executed against the destination.
C25_UnregisteredNameFailsRun ==
    ListsNameOutside(TRANSFORMATIONS) =>
        /\ StoppedInTransform
        /\ (pc = "raised") => run.status = "failed"

\* C25 (amended): if a non-excluded mapping with a source column lists a
\* transformation name other than 'none' that is not in the registry, every
\* try of the run that reaches the transform stage fails in it, every try
\* marks the record failed with its error when it raises, the record is never
\* completed, and no statement has been executed against the destination.
C25_UnknownNameFailsRun ==
    [][ ListsNameOutside(TRANSFORMATIONS \cup {"none"}) =>
            /\ StoppedInTransform'
            /\ (pc = "handler" /\ pc' # "handler") =>
                   /\ pc' = "raised"
                   /\ run'.status = "failed"
                   /\ run'.error_message = err ]_vars

C25_Witness ==
    /\ ListsNameOutside(TRANSFORMATIONS \cup {"none"})
    /\ pc = "raised"
    /\ err = "unknown_transformation"
    /\ run.status = "failed"
    /\ dest.exists

\* C26: in every state of a run record, rows_processed + rows_failed is at
\* most rows_total: no row is counted both as processed and as failed.
C26_CountersWithinTotal ==
    run.exists => run.rows_processed + run.rows_failed <= run.rows_total

\* C27: whenever the first slice is about to be submitted, every column named
\* in the generated DML (the batch columns plus the created_at/updated_at
\* columns the loader added from its snapshot) is a column of the destination
\* table as it exists at that moment, for every strategy and reconciliation
\* path.
C27_DmlColumnsExistAtFirstSlice ==
    (pc = "load" /\ start_idx = 0 /\ total_rows > 0) =>
        /\ dest.exists
        /\ df.columns \subseteq dest.cols

\* C28: the transform stage preserves the row count: the batch handed to the
\* loader has as many rows as the rows_total recorded after extraction, and a
\* record that is completed has rows_processed = rows_total, for every
\* mapping configuration.
C28_TransformPreservesRowCount ==
    /\ (pc \in {"connect", "create_schema", "pre_create", "snapshot", "reconcile",
                "add_columns", "refresh", "prepare", "constraint", "load"})
           => total_rows = run.rows_total
    /\ (run.status = "completed") => run.rows_processed = run.rows_total

\* C29: provisioning of the upsert primary key is all-or-nothing: when a try
\* fails while replacing a primary key the table already had, the table still
\* has a primary key afterwards.
C29_FailedProvisionKeepsPrimaryKey ==
    (err = "pk_add_failed" /\ "DROP CONSTRAINT" \in Range(log)) => PrimaryKeys(dest) # {}

\* C30: when two runs of an insert job reconcile the same table concurrently
\* and both found a column missing, neither run's ALTER loop is left with a
\* column the table already has, which its ALTER TABLE ... ADD COLUMN would be
\* rejected for: both runs can finish reconciliation in every interleaving.
C30_ConcurrentAddColumnNeverClashes ==
    /\ (pc = "add_columns") => todo \cap dest.cols = {}
    /\ (peer.pc = "add_columns") => peer.todo \cap dest.cols = {}

====
